---- MODULE Spec2Model ----
(***************************************************************************)
(* winvec-rs: WinVec<T> (src/src/lib.rs) and WinSet<T> (src/src/winset.rs) *)
(* -- collections that purge entries older than a fixed duration on read.  *)
(*                                                                         *)
(* An entry is the Rust tuple (Instant, T), modelled as <<ts, val>>:       *)
(* e[1] is e.0 (the timestamp), e[2] is e.1 (the value).  Instants and     *)
(* durations are whole clock ticks.  The monotonic clock `now` moves in     *)
(* Tick, between calls, and inside a purge: the filter closure calls       *)
(* e.0.elapsed(), that is Instant::now(), once per entry, and clones the   *)
(* entry it keeps before it tests the next, so the readings of one purge   *)
(* are non-decreasing but need not agree.  The first reading of a purge is *)
(* the instant of the call; push, insert and from_set read the clock once. *)
(*                                                                         *)
(* A behaviour follows one collection: `kind` says which of the two types  *)
(* was constructed (the two types share no state).                         *)
(***************************************************************************)
EXTENDS Integers, Sequences, FiniteSets

\* ---- bounds of the model ----
MaxTime == 2      \* the clock runs from 0 to MaxTime
MaxWindow == 2    \* durations given at construction range over 0..MaxWindow
MaxLen == 2       \* inserts are taken while storage holds fewer entries

\* element values; the code only moves, clones, hashes and compares them
Values == {"a", "b"}
\* caller-supplied instants: from one tick before the clock's origin (expired on
\* arrival under a window of one tick, whatever the clock) to the end of the
\* clock's run (ahead of the clock at any earlier time)
Stamps == (-1)..MaxTime
Windows == 0..MaxWindow
Entries == Stamps \X Values

VARIABLES
    kind,      \* "vec": a WinVec was constructed; "set": a WinSet
    window,    \* self.1, the Duration
    now,       \* the monotonic clock, Instant::now()
    alive,     \* FALSE once into_iter(self) has consumed the collection
    vec,       \* WinVec.0 : Vec<(Instant, T)>
    set,       \* WinSet.0 : HashSet<(Instant, T)>
    obs,       \* the call that just returned and what it yielded (op = "none": no call yet, or the clock moved)
    observed,  \* history: some observation has run
    dirty,     \* history: an entry was handed in since construction or the last observation
    fed        \* history: "none": nothing was handed in yet; "clock": only by push / insert;
               \* "explicit": push_with_timestamp / insert_with_timestamp was called

vars == <<kind, window, now, alive, vec, set, obs, observed, dirty, fed>>

\* ---- pure functions ----

\* Instant::elapsed(): Instant::now() - self, a Duration; the subtraction
\* saturates at zero when self is later than now.
ElapsedSigned(t, n) == n - t
elapsed(t, n) == IF n >= t THEN n - t ELSE 0

\* the filter closure of purge: |e| e.0.elapsed() < dur
RetainLe(e, dur, n) == elapsed(e[1], n) <= dur
Retain(e, dur, n) == elapsed(e[1], n) < dur

\* the clock readings of one purge of a Vec of k entries begun at clock n: the
\* i-th is the Instant::now() inside e.0.elapsed() for the i-th entry
VecReadings(k, n) ==
    {r \in [1..k -> n..MaxTime] :
        /\ (k > 0) => r[1] = n
        /\ \A i, j \in 1..k : i < j => r[i] <= r[j]}

\* the clock readings of one purge of a HashSet s begun at clock n: the set is
\* walked in an order of its own, so any entry may get the earliest reading
SetReadings(s, n) ==
    {r \in [s -> n..MaxTime] : (s # {}) => \E e \in s : r[e] = n}

\* the clock as the purge leaves it: its last reading (n itself when storage is
\* empty and nothing is read). The call reads the clock no more after that;
\* time that passes before the next call is a Tick.
ClockAfter(r, n) ==
    IF DOMAIN r = {} THEN n ELSE CHOOSE t \in {r[x] : x \in DOMAIN r} : \A x \in DOMAIN r : r[x] <= t

\* .collect() of the entries of v at the indices I, in the order of v
Collect(v, I) ==
    [k \in 1..Cardinality(I) |-> v[CHOOSE i \in I : Cardinality({j \in I : j <= i}) = k]]

\* WinVec::purge: self.0 = self.0.filter(..).collect(); r[i] is the clock
\* reading taken for v[i]
WinVec_purge_restamp(v, dur, r) ==
    Collect([i \in DOMAIN v |-> <<r[i], v[i][2]>>], {i \in DOMAIN v : Retain(v[i], dur, r[i])})
WinVec_purge(v, dur, r) == Collect(v, {i \in DOMAIN v : Retain(v[i], dur, r[i])})

\* WinSet::purge: self.0 = self.0.clone().filter(..).collect(); r[e] is the
\* clock reading taken for e
WinSet_purge_touch(s, dur, r) == {<<e[1] + 1, e[2]>> : e \in {x \in s : Retain(x, dur, r[x])}}
WinSet_purge_restamp(s, dur, r) == {<<r[e], e[2]>> : e \in {x \in s : Retain(x, dur, r[x])}}
WinSet_purge(s, dur, r) == {e \in s : Retain(e, dur, r[e])}

\* .map(|e| e.1) over a Vec
Seconds(v) == [i \in 1..Len(v) |-> v[i][2]]

\* the orders in which a HashSet may hand out its elements
Orderings(S) ==
    {f \in [1..Cardinality(S) -> S] : \A i, j \in 1..Cardinality(S) : i # j => f[i] # f[j]}

\* WinVec::push_with_timestamp: self.0.push((instant, el))
WinVec_push_front(v, el, instant) == <<<<instant, el>>>> \o v
WinVec_push_with_timestamp(v, el, instant) == Append(v, <<instant, el>>)

\* WinSet::insert_with_timestamp: self.0.insert((instant, el))
WinSet_insert_with_timestamp(s, el, instant) == s \cup {<<instant, el>>}

\* WinVec::push: self.0.push((Instant::now(), el))
WinVec_push_purging(v, el) ==
    Append(WinVec_purge(v, window, [i \in DOMAIN v |-> now]), <<now, el>>)
WinVec_push(v, el) == Append(v, <<now, el>>)

\* WinSet::insert: self.0.insert((Instant::now(), el))
WinSet_insert(s, el) == s \cup {<<now, el>>}

\* WinSet::duration: self.1
WinSet_duration_left(dur) == IF dur > now THEN dur - now ELSE 0
WinSet_duration(dur) == dur

\* WinVec::len after purge: self.0.len()
WinVec_len(v) == Len(v)

\* WinSet::len after purge: self.0.len()
WinSet_len(s) == Cardinality(s)

\* WinSet::from_set: every element gets the one instant read at the start
WinSet_from_set(S, instant) == {<<instant, el>> : el \in S}

\* WinVec::iter after purge: the values in storage order
WinVec_iter(v) == Seconds(v)

\* WinVec::into_iter after purge: the values moved into a Vec, in storage order
WinVec_into_iter(v) == Seconds(v)

\* WinSet::iter after purge: one value per storage entry, in any order
WinSet_iter(s) == {Seconds(f) : f \in Orderings(s)}

\* WinSet::into_iter after purge: collect the values into a HashSet<T>, then iterate
WinSet_into_iter(s) == Orderings({e[2] : e \in s})

\* ---- the record of a call ----
\* op: the method; at: the clock when it was called (the variable now is the
\* clock when it returned); arg: the entry a push / insert handed in;
\* readV, readS: the clock reading a purge took for each index of the Vec, for
\* each entry of the HashSet;
\* held: storage held that very entry already; dur: what duration() returns;
\* n: the count len() returns; out: the values iter / into_iter yield;
\* preV, preS: storage as an observation found it; postV, postS: storage as its
\* purge left it; and, as history, again: an observation ran before this one;
\* quiet: nothing was handed in since that one (or since construction)
NoObs == [op |-> "none", at |-> 0, arg |-> <<>>, held |-> FALSE, dur |-> 0,
          n |-> 0, out |-> <<>>,
          preV |-> <<>>, preS |-> {}, postV |-> <<>>, postS |-> {},
          readV |-> <<>>, readS |-> <<>>,
          again |-> FALSE, quiet |-> FALSE]

\* ---- construction ----
\* WinVec::with_duration(dur), WinSet::with_duration(dur) or WinSet::from_set(S, dur) at clock 0
Init ==
    /\ kind \in {"vec", "set"}
    /\ window \in Windows
    /\ now = 0
    /\ alive = TRUE
    /\ vec = <<>>
    /\ set \in IF kind = "set" THEN {WinSet_from_set(S, 0) : S \in SUBSET Values} ELSE {{}}
    /\ obs = NoObs
    /\ observed = FALSE
    /\ dirty = FALSE
    /\ fed = "none"

\* ---- the clock ----
Tick ==
    /\ now < MaxTime
    /\ now' = now + 1
    /\ obs' = NoObs
    /\ UNCHANGED <<kind, window, alive, vec, set, observed, dirty, fed>>

\* ---- WinVec ----
\* a push of either kind: `stored` is the storage the method leaves
VecPushAt(op, el, instant, stored) ==
    /\ kind = "vec" /\ alive /\ Len(vec) < MaxLen
    /\ vec' = stored
    /\ obs' = [NoObs EXCEPT !.op = op, !.at = now, !.arg = <<instant, el>>]
    /\ dirty' = TRUE
    /\ fed' = IF op = "push" /\ fed # "explicit" THEN "clock" ELSE "explicit"
    /\ UNCHANGED <<kind, window, now, alive, set, observed>>

\* WinVec::push(el): the timestamp is Instant::now()
Push == \E el \in Values : VecPushAt("push", el, now, WinVec_push(vec, el))

\* WinVec::push_with_timestamp(el, instant)
PushWithTimestamp ==
    \E el \in Values, instant \in Stamps :
        VecPushAt("push_with_timestamp", el, instant,
                  WinVec_push_with_timestamp(vec, el, instant))

VecObserve(op, consumes) ==
    /\ kind = "vec" /\ alive
    /\ \E r \in VecReadings(Len(vec), now) :
          LET kept == WinVec_purge(vec, window, r)
          IN  /\ vec' = IF consumes THEN <<>> ELSE kept
              /\ now' = ClockAfter(r, now)
              /\ obs' = [NoObs EXCEPT !.op = op, !.at = now, !.n = WinVec_len(kept),
                             !.out = IF op = "len" THEN <<>>
                                     ELSE IF op = "iter" THEN WinVec_iter(kept)
                                     ELSE WinVec_into_iter(kept),
                             !.preV = vec, !.postV = kept, !.readV = r,
                             !.again = observed, !.quiet = ~dirty]
    /\ alive' = ~consumes
    /\ observed' = TRUE
    /\ dirty' = FALSE
    /\ UNCHANGED <<kind, window, set, fed>>

\* WinVec::len(): purge, then self.0.len()
VecLen == VecObserve("len", FALSE)

\* WinVec::iter(): purge, then the values
VecIter == VecObserve("iter", FALSE)

\* WinVec::into_iter(self): purge, then the values, consuming the collection
VecIntoIter == VecObserve("into_iter", TRUE)

\* ---- WinSet ----
\* an insert of either kind: `stored` is the storage the method leaves
SetInsertAt(op, el, instant, stored) ==
    /\ kind = "set" /\ alive /\ Cardinality(set) < MaxLen
    /\ set' = stored
    /\ obs' = [NoObs EXCEPT !.op = op, !.at = now, !.arg = <<instant, el>>,
                            !.held = <<instant, el>> \in set]
    /\ dirty' = TRUE
    /\ fed' = IF op = "insert" /\ fed # "explicit" THEN "clock" ELSE "explicit"
    /\ UNCHANGED <<kind, window, now, alive, vec, observed>>

\* WinSet::insert(el): the timestamp is Instant::now()
Insert == \E el \in Values : SetInsertAt("insert", el, now, WinSet_insert(set, el))

\* WinSet::insert_with_timestamp(el, instant)
InsertWithTimestamp ==
    \E el \in Values, instant \in Stamps :
        SetInsertAt("insert_with_timestamp", el, instant,
                    WinSet_insert_with_timestamp(set, el, instant))

\* WinSet::duration(&self): the Duration, nothing else touched
SetDuration ==
    /\ kind = "set" /\ alive
    /\ obs' = [NoObs EXCEPT !.op = "duration", !.at = now, !.dur = WinSet_duration(window)]
    /\ UNCHANGED <<kind, window, now, alive, vec, set, observed, dirty, fed>>

SetObserve(op, consumes) ==
    /\ kind = "set" /\ alive
    /\ \E r \in SetReadings(set, now) :
          LET kept == WinSet_purge(set, window, r)
          IN  /\ set' = IF consumes THEN {} ELSE kept
              /\ now' = ClockAfter(r, now)
              /\ \E o \in (IF op = "len" THEN {<<>>}
                           ELSE IF op = "iter" THEN WinSet_iter(kept)
                           ELSE WinSet_into_iter(kept)) :
                    obs' = [NoObs EXCEPT !.op = op, !.at = now, !.n = WinSet_len(kept),
                                !.out = o, !.preS = set, !.postS = kept,
                                !.readS = IF set = {} THEN <<>> ELSE r,
                                !.again = observed, !.quiet = ~dirty]
    /\ alive' = ~consumes
    /\ observed' = TRUE
    /\ dirty' = FALSE
    /\ UNCHANGED <<kind, window, vec, fed>>

\* WinSet::len(): purge, then self.0.len()
SetLen == SetObserve("len", FALSE)

\* WinSet::iter(): purge, then one value per entry
SetIter == SetObserve("iter", FALSE)

\* WinSet::into_iter(self): purge, then the distinct values, consuming the collection
SetIntoIter == SetObserve("into_iter", TRUE)

Next ==
    \/ Tick
    \/ Push
    \/ PushWithTimestamp
    \/ VecLen
    \/ VecIter
    \/ VecIntoIter
    \/ Insert
    \/ InsertWithTimestamp
    \/ SetDuration
    \/ SetLen
    \/ SetIter
    \/ SetIntoIter

Spec == Init /\ [][Next]_vars

\* The library schedules nothing itself. FairSpec is the caller the lifecycle
\* of an entry presupposes: the clock keeps running to the end of its run and
\* the caller keeps calling len().
FairSpec ==
    /\ Spec
    /\ WF_vars(Tick)
    /\ WF_vars(VecLen)
    /\ WF_vars(SetLen)

TypeOK ==
    /\ kind \in {"vec", "set"}
    /\ window \in Windows
    /\ now \in 0..MaxTime
    /\ alive \in BOOLEAN
    /\ Len(vec) <= MaxLen
    /\ \A i \in 1..Len(vec) : vec[i] \in Entries
    /\ set \subseteq Entries
    /\ Cardinality(set) <= MaxLen
    /\ obs.op \in {"none", "push", "push_with_timestamp", "insert", "insert_with_timestamp",
                   "duration", "len", "iter", "into_iter"}
    /\ fed \in {"none", "clock", "explicit"}

\* ---- vocabulary of the properties ----

\* the age of an instant ts read at clock t: t - ts, and zero when ts lies ahead of t
Age(ts, t) == IF ts > t THEN 0 ELSE t - ts
Fresh(e, t) == Age(e[1], t) < window
Stale(e, t) == Age(e[1], t) >= window

\* how often v occurs in the sequence q
Count(q, v) == Cardinality({i \in DOMAIN q : q[i] = v})
Range(q) == {q[i] : i \in DOMAIN q}

IsObs(o) == o.op \in {"len", "iter", "into_iter"}
IsInsert(o) == o.op \in {"push", "push_with_timestamp", "insert", "insert_with_timestamp"}
Yields(o) == o.op \in {"iter", "into_iter"}

\* an observation is taken at the instant of its call, o.at: the entries within
\* the window at an observation are those of age < window at o.at.
\* The storage entries the observation o found that were within the window,
\* counted per value and in all
FreshIdx(o) == {i \in DOMAIN o.preV : Fresh(o.preV[i], o.at)}
FreshSet(o) == {e \in o.preS : Fresh(e, o.at)}
FreshCount(o, v) ==
    IF kind = "vec" THEN Cardinality({i \in FreshIdx(o) : o.preV[i][2] = v})
    ELSE Cardinality({e \in FreshSet(o) : e[2] = v})
FreshTotal(o) ==
    IF kind = "vec" THEN Cardinality(FreshIdx(o)) ELSE Cardinality(FreshSet(o))

\* WinSet::into_iter hands out values of a set: it yields a value once however
\* many entries carry it
Collapses(o) == kind = "set" /\ o.op = "into_iter"

\* C1 (Freshness): whatever an observation yields is backed by storage entries
\* that were within the window when it ran: len counts no more than the entries
\* of age < window, and iter / into_iter yield each value no more often than
\* entries of age < window carry it. An entry of age = window backs nothing.
Freshness ==
    IsObs(obs) =>
        /\ obs.op = "len" => obs.n <= FreshTotal(obs)
        /\ Yields(obs) =>
              /\ Range(obs.out) \subseteq Values
              /\ \A v \in Values : Count(obs.out, v) <= FreshCount(obs, v)

\* C1 witness: a WinVec iter that yields a value while an entry whose age is
\* exactly the (positive) window was in storage and is left out
FreshnessWitness ==
    /\ kind = "vec" /\ obs.op = "iter" /\ window > 0
    /\ Len(obs.out) >= 1
    /\ Len(obs.out) < Len(obs.preV)
    /\ \E i \in DOMAIN obs.preV : obs.at - obs.preV[i][1] = window

\* C2 (Completeness): every storage entry of age < window at the observation is
\* yielded: len counts it, iter yields its value once per such entry, WinSet's
\* into_iter yields its value at least once, and a non-consuming observation
\* leaves it in storage.
Completeness ==
    IsObs(obs) =>
        /\ obs.op = "len" => obs.n >= FreshTotal(obs)
        /\ (Yields(obs) /\ ~Collapses(obs)) =>
              \A v \in Values : Count(obs.out, v) >= FreshCount(obs, v)
        /\ Collapses(obs) =>
              \A v \in Values : FreshCount(obs, v) >= 1 => Count(obs.out, v) >= 1
        /\ kind = "vec" =>
              \A i \in FreshIdx(obs) :
                  LET e == obs.preV[i]
                  IN  Count(obs.postV, e) >= Cardinality({j \in FreshIdx(obs) : obs.preV[j] = e})
        /\ kind = "set" => FreshSet(obs) \subseteq obs.postS
        /\ (obs.op # "into_iter" /\ kind = "vec") => vec = obs.postV
        /\ (obs.op # "into_iter" /\ kind = "set") => set = obs.postS

\* the rank of index i among the indices in I
Rank(I, i) == Cardinality({j \in I : j <= i})

\* the indices of the entries that survive the purge of the observation o of a
\* WinVec: those whose age was below the window when the purge looked at them
KeptIdx(o) == {i \in DOMAIN o.preV : Age(o.preV[i][1], o.readV[i]) < window}

\* q is p with some entries left out
IsSubSeq(q, p) ==
    \E I \in SUBSET DOMAIN p :
        /\ Len(q) = Cardinality(I)
        /\ \A i \in I : q[Rank(I, i)] = p[i]

\* C3 (Order preservation): a push of either kind puts the new entry behind all
\* entries in storage and leaves those as they are, and an observation of a
\* WinVec keeps the surviving entries in their storage order: iter and into_iter
\* yield the value of the k-th survivor in k-th place, and storage after the
\* purge lists the survivors in the same order.
OrderStep ==
    kind = "vec" =>
        /\ IsInsert(obs') =>
              /\ Len(vec') = Len(vec) + 1
              /\ \A i \in 1..Len(vec) : vec'[i] = vec[i]
              /\ vec'[Len(vec')] = obs'.arg
        /\ IsObs(obs') =>
              LET I == KeptIdx(obs')
              IN  /\ obs'.preV = vec
                  /\ Yields(obs') =>
                        /\ Len(obs'.out) = Cardinality(I)
                        /\ \A i \in I : obs'.out[Rank(I, i)] = vec[i][2]
                  /\ Len(obs'.postV) = Cardinality(I)
                  /\ \A i \in I : obs'.postV[Rank(I, i)] = vec[i]
                  /\ obs'.op # "into_iter" => vec' = obs'.postV
OrderPreservation == [][OrderStep]_vars

\* C3 witness: iter found two entries, looked at the second a clock step after
\* the first, kept both and yielded the first before the second, although the
\* first carries the later timestamp
OrderPreservationWitness ==
    /\ kind = "vec" /\ obs.op = "iter"
    /\ Len(obs.preV) = 2
    /\ obs.readV[1] < obs.readV[2]
    /\ obs.preV[1][1] > obs.preV[2][1]
    /\ obs.preV[1][2] # obs.preV[2][2]
    /\ obs.out = <<obs.preV[1][2], obs.preV[2][2]>>

\* C4 (Set duplicate rule): an insert into a WinSet adds its (instant, value)
\* entry beside an entry that holds the same value under another instant; and
\* when storage holds a value under two instants that are both within the
\* window at an observation, len counts both, iter yields the value twice and
\* into_iter yields it once; with nothing else in the window that is len() = 2,
\* iter = [v, v] and into_iter = [v].
DuplicateStep ==
    kind = "set" =>
        /\ IsInsert(obs') => set' = set \cup {obs'.arg}
        /\ IsObs(obs') =>
              LET inWin == {e \in set : Fresh(e, now)}
              IN  \A v \in Values :
                    Cardinality({e \in inWin : e[2] = v}) = 2 =>
                        /\ obs'.op = "len" => obs'.n = Cardinality(inWin)
                        /\ obs'.op = "iter" => Count(obs'.out, v) = 2
                        /\ obs'.op = "into_iter" => Count(obs'.out, v) = 1
                        /\ Cardinality(inWin) = 2 =>
                              /\ obs'.op = "len" => obs'.n = 2
                              /\ obs'.op = "iter" => obs'.out = <<v, v>>
                              /\ obs'.op = "into_iter" => obs'.out = <<v>>
SetDuplicateRule == [][DuplicateStep]_vars

\* C5 (Zero-window emptiness): under a window of zero every observation is
\* empty: len is 0 and iter / into_iter yield nothing, whatever was inserted and
\* whatever instants the caller supplied.
ZeroWindowEmpty ==
    (window = 0 /\ IsObs(obs)) =>
        /\ obs.n = 0
        /\ obs.out = <<>>
        /\ (alive /\ kind = "vec") => vec = <<>>
        /\ (alive /\ kind = "set") => set = {}

\* C5 witness: under a zero window, an observation that found an entry stamped
\* at the current instant and one stamped ahead of it
ZeroWindowEmptyWitness ==
    /\ window = 0 /\ IsObs(obs)
    /\ \/ \E i, j \in DOMAIN obs.preV : obs.preV[i][1] = obs.at /\ obs.preV[j][1] > obs.at
       \/ \E e, f \in obs.preS : e[1] = obs.at /\ f[1] > obs.at

\* C6 (Idempotent purge): an observation that follows an observation with
\* nothing handed in since, and that returns at a clock where every entry the
\* first one left is still within the window (no clock advance past any
\* survivor's deadline, before or during the call), leaves the same survivors
\* (for WinVec the same sequence) and removes nothing; made right after a len
\* or an iter it reports
\* what that one reported: the same count, for iter the same values as often,
\* for WinVec in the same order.
IdempotentStep ==
    (IsObs(obs') /\ observed /\ ~dirty) =>
        /\ (kind = "vec" /\ \A i \in DOMAIN vec : Fresh(vec[i], now')) =>
              /\ obs'.postV = vec
              /\ obs'.n = Len(vec)
              /\ obs'.op # "into_iter" => vec' = vec
              /\ Yields(obs') => obs'.out = Seconds(vec)
              /\ (obs.op = "len" /\ obs'.op = "len") => obs'.n = obs.n
              /\ (obs.op = "iter" /\ Yields(obs')) => obs'.out = obs.out
        /\ (kind = "set" /\ \A e \in set : Fresh(e, now')) =>
              /\ obs'.postS = set
              /\ obs'.n = Cardinality(set)
              /\ obs'.op # "into_iter" => set' = set
              /\ (obs.op = "len" /\ obs'.op = "len") => obs'.n = obs.n
              /\ (obs.op = "iter" /\ obs'.op = "iter") =>
                    \A v \in Values : Count(obs'.out, v) = Count(obs.out, v)
IdempotentPurge == [][IdempotentStep]_vars

\* C6 witness: a WinVec iter that yields two values, made after an earlier
\* observation with no push since; the clock moves during the call, past the
\* instants of both entries, and both are still within the window when it
\* returns
IdempotentPurgeWitness ==
    /\ kind = "vec" /\ obs.op = "iter" /\ Len(obs.out) = 2
    /\ obs.again /\ obs.quiet
    /\ obs.postV = obs.preV /\ vec = obs.preV
    /\ obs.at < now
    /\ \A i \in DOMAIN obs.preV : obs.preV[i][1] < now /\ Fresh(obs.preV[i], now)

\* C7 (Monotone visibility): between two observations storage changes only by
\* the entries handed in (a push appends its entry, an insert adds its entry,
\* the clock changes nothing), a non-consuming observation leaves in storage
\* exactly its survivors, and an observation's survivors and yield come from the
\* storage it finds - for WinVec as that sequence with entries left out, for
\* WinSet as a subset. So what the later observation sees is drawn from the
\* survivors of the earlier one and the entries inserted in between, and
\* nothing evicted or absent comes back unless it is inserted again.
MonotoneStep ==
    /\ kind = "vec" =>
          /\ IsObs(obs') =>
                /\ IsSubSeq(obs'.postV, vec)
                /\ Yields(obs') => IsSubSeq(obs'.out, Seconds(vec))
                /\ obs'.n <= Len(vec)
                /\ vec' = IF obs'.op = "into_iter" THEN <<>> ELSE obs'.postV
          /\ IsInsert(obs') => vec' = Append(vec, obs'.arg)
          /\ obs'.op = "none" => vec' = vec
    /\ kind = "set" =>
          /\ IsObs(obs') =>
                /\ obs'.postS \subseteq set
                /\ Yields(obs') => Range(obs'.out) \subseteq {e[2] : e \in set}
                /\ obs'.n <= Cardinality(set)
                /\ set' = IF obs'.op = "into_iter" THEN {} ELSE obs'.postS
          /\ IsInsert(obs') => set' = set \cup {obs'.arg}
          /\ obs'.op = "none" => set' = set
MonotoneVisibility == [][MonotoneStep]_vars

\* C7 witness: a second WinSet observation, with an insert since the first,
\* that finds two entries, evicts one and yields the other
MonotoneVisibilityWitness ==
    /\ kind = "set" /\ obs.op = "iter" /\ obs.again /\ ~obs.quiet
    /\ Cardinality(obs.preS) = 2
    /\ Cardinality(obs.postS) = 1
    /\ obs.postS \subseteq obs.preS
    /\ Len(obs.out) = 1

\* C8 (Explicit past timestamp): push_with_timestamp and insert_with_timestamp
\* take an entry whose instant is already a window or more behind the clock
\* into storage; an entry that far behind stays that far behind as the clock
\* moves; and an observation that finds such entries removes every one of them
\* and yields none of them, while it counts and yields the entries beside them
\* that are within the window.
ExplicitPastStep ==
    /\ (obs'.op = "push_with_timestamp" /\ Stale(obs'.arg, now)) =>
          vec' = Append(vec, obs'.arg)
    /\ (obs'.op = "insert_with_timestamp" /\ Stale(obs'.arg, now)) =>
          set' = set \cup {obs'.arg}
    /\ \A i \in DOMAIN vec : Stale(vec[i], now) => Stale(vec[i], now')
    /\ \A e \in set : Stale(e, now) => Stale(e, now')
    /\ (IsObs(obs') /\ \E e \in Range(vec) \cup set : Stale(e, now)) =>
          /\ \A i \in DOMAIN vec : Stale(vec[i], now) => Count(obs'.postV, vec[i]) = 0
          /\ \A e \in set : Stale(e, now) => e \notin obs'.postS
          /\ obs'.n = Cardinality({i \in DOMAIN vec : Fresh(vec[i], now)})
                        + Cardinality({e \in set : Fresh(e, now)})
          /\ (Yields(obs') /\ ~Collapses(obs')) =>
                \A v \in Values :
                    Count(obs'.out, v) =
                        Cardinality({i \in DOMAIN vec : Fresh(vec[i], now) /\ vec[i][2] = v})
                        + Cardinality({e \in set : Fresh(e, now) /\ e[2] = v})
          /\ Collapses(obs') =>
                Range(obs'.out) = {e[2] : e \in {x \in set : Fresh(x, now)}}
ExplicitPast == [][ExplicitPastStep]_vars

\* C9 (No timestamp refresh on re-insert): an insert into a WinSet leaves every
\* entry in storage as it is, the entries of the same value included, and adds
\* its own; when storage holds a value under an earlier instant that has left
\* the window and a later one that has not, the observation evicts the earlier
\* entry, keeps the later one, counts only what is within the window and still
\* yields the value: with these two entries alone len() is 1.
NoRefreshStep ==
    kind = "set" =>
        /\ IsInsert(obs') =>
              /\ set \subseteq set'
              /\ obs'.arg \in set'
        /\ IsObs(obs') =>
              \A e1, e2 \in set :
                  (e1[2] = e2[2] /\ e1[1] < e2[1] /\ Stale(e1, now) /\ Fresh(e2, now)) =>
                      /\ e1 \notin obs'.postS
                      /\ e2 \in obs'.postS
                      /\ obs'.op = "len" => obs'.n = Cardinality({e \in set : Fresh(e, now)})
                      /\ Yields(obs') => e2[2] \in Range(obs'.out)
                      /\ (set = {e1, e2} /\ obs'.op = "len") => obs'.n = 1
                      /\ (set = {e1, e2} /\ obs'.op # "into_iter") => set' = {e2}
NoRefreshOnReinsert == [][NoRefreshStep]_vars

\* C10 (WinSet drain uniqueness): into_iter of a WinSet yields no value twice;
\* the values it yields are those of the entries within the window, which are
\* the values iter yields at the same instant; it yields no more values than
\* len() counts, and as many exactly when no value has two entries within the
\* window.
DrainUniqueness ==
    (kind = "set" /\ obs.op = "into_iter") =>
        /\ \A i, j \in DOMAIN obs.out : i # j => obs.out[i] # obs.out[j]
        /\ Range(obs.out) = {e[2] : e \in FreshSet(obs)}
        /\ \A q \in WinSet_iter(obs.postS) : Range(q) = Range(obs.out)
        /\ Len(obs.out) <= obs.n
        /\ obs.n = FreshTotal(obs)
        /\ Len(obs.out) = obs.n <=> \A v \in Values : FreshCount(obs, v) <= 1

\* C11 (from_set shared instant): a WinSet built by from_set and given nothing
\* since holds all its entries under one instant; an observation called before
\* the clock has moved counts and yields as many entries as there are distinct
\* initial values (read for a positive window: under a zero window every
\* observation is empty); and every observation keeps all the initial entries
\* or evicts them all, never a proper non-empty subset.
FromSetStep ==
    (kind = "set" /\ fed = "none" /\ IsObs(obs')) =>
        LET vals == {e[2] : e \in set}
        IN  /\ obs'.preS = set
            /\ \A e, f \in set : e[1] = f[1]
            /\ Cardinality(set) = Cardinality(vals)
            /\ obs'.postS = set \/ obs'.postS = {}
            /\ obs'.op = "len" => obs'.n \in {0, Cardinality(vals)}
            /\ Yields(obs') => Range(obs'.out) \in {{}, vals}
            /\ (now = 0 /\ window > 0 /\ ~observed) =>
                  /\ obs'.postS = set
                  /\ obs'.op = "len" => obs'.n = Cardinality(vals)
                  /\ Yields(obs') => Len(obs'.out) = Cardinality(vals) /\ Range(obs'.out) = vals
FromSetSharedInstant == [][FromSetStep]_vars

\* C12 (Window immutability): no step changes the window - not a push or an
\* insert of either kind, not len, iter or into_iter with their purge, not
\* duration(), not the clock - so it is the duration given at construction
\* throughout; and duration() returns it and leaves storage as it is.
WindowStep ==
    /\ window' = window
    /\ obs'.op = "duration" =>
          /\ obs'.dur = window
          /\ set' = set /\ vec' = vec /\ alive' = alive
WindowImmutable == [][WindowStep]_vars

\* C12 witness: duration() returns the window of two ticks at the end of the
\* clock's run, after an observation and an insert that followed it
WindowImmutableWitness ==
    /\ kind = "set" /\ obs.op = "duration" /\ obs.dur = 2 /\ window = 2
    /\ observed /\ dirty
    /\ now = MaxTime
    /\ set # {}

\* C14 (Eviction never runs on insertion): push, push_with_timestamp, insert
\* and insert_with_timestamp remove nothing, not even an entry that has left
\* the window: storage after the call is storage before it plus the entry
\* handed in. The clock removes nothing either, so as long as no observation
\* has run storage keeps every entry it was given.
NoEvictionOnInsertStep ==
    /\ (IsInsert(obs') /\ kind = "vec") =>
          /\ vec' = Append(vec, obs'.arg)
          /\ \A i \in DOMAIN vec : Stale(vec[i], now) => vec'[i] = vec[i]
    /\ (IsInsert(obs') /\ kind = "set") =>
          /\ set' = set \cup {obs'.arg}
          /\ \A e \in set : Stale(e, now) => e \in set'
    /\ ~IsObs(obs') =>
          /\ Len(vec') >= Len(vec)
          /\ \A i \in DOMAIN vec : vec'[i] = vec[i]
          /\ set \subseteq set'
NoEvictionOnInsert == [][NoEvictionOnInsertStep]_vars

\* C14 witness: no observation has run; a push at the end of the clock's run
\* leaves in front of its entry an entry that has left the window
NoEvictionOnInsertWitness ==
    /\ kind = "vec" /\ ~observed /\ obs.op = "push" /\ window > 0
    /\ now = MaxTime
    /\ Len(vec) = 2
    /\ Stale(vec[1], now)
    /\ vec[2] = obs.arg /\ Fresh(vec[2], now)

Stored(e) == (\E i \in DOMAIN vec : vec[i] = e) \/ e \in set

\* C15 (Entry lifecycle): an entry stays in storage through every push, insert,
\* duration() and tick of the clock, and through every observation at which it
\* is within the window; an observation at which its age has reached the window
\* removes it. With a clock that keeps running and a caller that keeps calling
\* len(), every stored entry whose window ends within the clock's run is
\* eventually out of storage.
LifecycleStep ==
    /\ ~IsObs(obs') =>
          /\ \A i \in DOMAIN vec : i \in DOMAIN vec' /\ vec'[i] = vec[i]
          /\ set \subseteq set'
    /\ IsObs(obs') =>
          /\ \A i \in DOMAIN vec :
                Count(obs'.postV, vec[i]) =
                    IF Stale(vec[i], now) THEN 0
                    ELSE Cardinality({j \in DOMAIN vec : vec[j] = vec[i]})
          /\ \A e \in set : e \in obs'.postS <=> Fresh(e, now)
          /\ obs'.op # "into_iter" => vec' = obs'.postV /\ set' = obs'.postS
EntryLifecycle ==
    /\ [][LifecycleStep]_vars
    /\ []<>(\A e \in Entries : Stored(e) => e[1] + window > MaxTime)

\* the observation o of a WinVec kept exactly the last Len(o.postV) entries it found
KeptSuffix(o) ==
    /\ Len(o.postV) <= Len(o.preV)
    /\ o.postV = SubSeq(o.preV, Len(o.preV) - Len(o.postV) + 1, Len(o.preV))
\* the number of entries the observation o evicted
Evicted(o) == Len(o.preV) - Len(o.postV)

\* C16 (Suffix survivors): in a WinVec fed only by push, under the
\* non-decreasing clock, storage is in timestamp order and the entries that
\* survive an observation are a suffix of the storage it found: the observation
\* evicts a prefix, and no entry it evicts stands behind one it keeps.
SuffixSurvivors ==
    (kind = "vec" /\ fed # "explicit") =>
        /\ \A i, j \in DOMAIN vec : i < j => vec[i][1] <= vec[j][1]
        /\ IsObs(obs) =>
              /\ KeptSuffix(obs)
              /\ \A i, j \in DOMAIN obs.preV :
                    (i < j /\ i \in KeptIdx(obs)) => j \in KeptIdx(obs)
              /\ \A i \in DOMAIN obs.preV : i > Evicted(obs) <=> i \in KeptIdx(obs)
              /\ Yields(obs) =>
                    obs.out = Seconds(SubSeq(obs.preV, Evicted(obs) + 1, Len(obs.preV)))

\* C17 (Saturating age): an entry stamped later than the instant of an
\* observation has age zero there, neither negative nor an error, so under a
\* positive window the observation keeps it (and yields its value), and no
\* observation called at or after timestamp + window keeps the entry. Age zero
\* is not below a zero window, so under a zero window the entry is evicted like
\* any other.
SaturatingAge ==
    IsObs(obs) =>
        /\ \A e \in Range(obs.preV) \cup obs.preS :
              /\ (e[1] > obs.at) => Age(e[1], obs.at) = 0
              /\ (e[1] > obs.at /\ window > 0) =>
                    /\ e \in Range(obs.postV) \cup obs.postS
                    /\ Yields(obs) => e[2] \in Range(obs.out)
              /\ (obs.at >= e[1] + window) => e \notin Range(obs.postV) \cup obs.postS
              /\ (e[1] > obs.at /\ window = 0) => e \notin Range(obs.postV) \cup obs.postS
        /\ obs.n = Len(obs.postV) + Cardinality(obs.postS)

\* C18 (WinVec iter/drain agreement): on a WinVec, into_iter() called right
\* after iter() (at the instant iter() was called, nothing pushed in between) yields the very
\* sequence iter() yielded, and called right after len() it yields as many
\* values as len() counted; in every case it yields the values of the entries
\* it keeps in storage order, duplicates included, and as many as it counts.
DrainAgreementStep ==
    (kind = "vec" /\ obs'.op = "into_iter") =>
        /\ (obs.op = "iter" /\ obs.at = now) => obs'.out = obs.out
        /\ (obs.op = "len" /\ obs.at = now) => Len(obs'.out) = obs.n
        /\ Len(obs'.out) = obs'.n
        /\ obs'.n = Cardinality(KeptIdx(obs'))
        /\ \A i \in KeptIdx(obs') : obs'.out[Rank(KeptIdx(obs'), i)] = obs'.preV[i][2]
DrainAgreement == [][DrainAgreementStep]_vars

\* C19 (Observations do not refresh TTL): len() and iter() leave in storage
\* the entries that survive the purge, each with the timestamp and value it
\* had (a WinVec keeps their order too), and none whose age had reached the
\* window when the call was made; so no observation called at or after
\* timestamp + window leaves or yields the entry, whatever observations ran
\* before it.
ObserveFrameStep ==
    (obs'.op \in {"len", "iter"}) =>
        /\ (kind = "vec") =>
              LET I == KeptIdx(obs')
              IN  /\ Len(vec') = Cardinality(I)
                  /\ \A i \in I : vec'[Rank(I, i)] = vec[i]
                  /\ \A i \in DOMAIN vec : Stale(vec[i], now) => i \notin I
        /\ (kind = "set") =>
              /\ set' = {e \in set : Age(e[1], obs'.readS[e]) < window}
              /\ \A e \in set : Stale(e, now) => e \notin set'
        /\ window' = window
NoVisibleAfterWindow ==
    IsObs(obs) =>
        /\ \A e \in Range(obs.postV) \cup obs.postS : obs.at < e[1] + window
        /\ obs.op \in {"len", "iter"} => (vec = obs.postV /\ set = obs.postS)
        /\ obs.n <= Cardinality({i \in DOMAIN obs.preV : obs.at < obs.preV[i][1] + window})
                      + Cardinality({e \in obs.preS : obs.at < e[1] + window})
ObservationsKeepStamps ==
    /\ [][ObserveFrameStep]_vars
    /\ []NoVisibleAfterWindow

\* C19 witness: a len() that follows an earlier observation, with nothing
\* handed in since, evicts an entry the earlier one had kept and keeps another
ObservationsKeepStampsWitness ==
    /\ obs.op = "len" /\ obs.again /\ obs.quiet
    /\ \E e \in obs.preS : e \notin obs.postS /\ e[1] + window = obs.at
    /\ obs.postS # {}

\* C20 (WinSet storage is a set of (timestamp, value) pairs): an insert of
\* either kind whose (timestamp, value) pair is in storage already leaves
\* storage as it was, an insert in general adds just its pair, and len()
\* returns the number of distinct pairs in storage that are within the window,
\* so the repeated pair counts once and one value under two timestamps twice.
PairSetStep ==
    (kind = "set") =>
        /\ (IsInsert(obs') /\ obs'.arg \in set) => set' = set
        /\ IsInsert(obs') =>
              /\ Cardinality(set') = Cardinality(set) + (IF obs'.arg \in set THEN 0 ELSE 1)
              /\ obs'.arg \in set'
              /\ (obs'.op = "insert") => obs'.arg[1] = now
        /\ (obs'.op = "len") =>
              /\ obs'.n = Cardinality({e \in set : Fresh(e, now)})
              /\ obs'.n = Cardinality(set')
PairSet == [][PairSetStep]_vars

====
